---------------------------- MODULE Spec2Model ----------------------------
(***************************************************************************)
(* A model of the file-system content store of content_store.go:           *)
(* ContentStore.Put, ContentStore.Get, ContentStore.Exists, bothCloser     *)
(* and transformKey, over a model of the file-system namespace (directory  *)
(* entries that name inodes, inodes that hold the bytes written so far).   *)
(*                                                                         *)
(* Strings are sequences of one-character strings.  A gzip stream is a     *)
(* sequence of tokens: a header, run-length encoded data, a trailer with   *)
(* a checksum and the length.  A SHA-256 digest is HashSize bytes computed *)
(* injectively from the content, hex-encoded as the code hex-encodes it.   *)
(***************************************************************************)
EXTENDS Integers, Sequences, FiniteSets, TLC

\* ------------------------------------------------------------------ bounds

\* The longest key transformKey is applied to.
MaxKeyLen == 6

\* The longest content a caller streams into Put.
MaxLen == 2

\* The largest fromByte above the longest content that a caller passes to Get.
MaxOver == 1

\* ---------------------------------------------------------------- strings

Byte == {0, 1}

RECURSIVE SeqsUpTo(_, _)
SeqsUpTo(S, n) ==
    IF n = 0 THEN {<<>>}
    ELSE LET shorter == SeqsUpTo(S, n - 1)
         IN  shorter \cup {Append(s, c) : s \in {t \in shorter : Len(t) = n - 1}, c \in S}

\* The byte sequences a source reader yields.
Contents == SeqsUpTo(Byte, MaxLen)

Sep == "/"

gzSuffix == <<".", "g", "z">>

tmpSuffix == <<".", "t", "m", "p">>

\* filepath.Clean for the paths the store builds: separators that repeat are
\* collapsed and a trailing separator is dropped.
RECURSIVE Clean(_)
Clean(s) ==
    IF Len(s) = 0 THEN s
    ELSE LET rest == Clean(Tail(s))
         IN  IF Head(s) = Sep /\ (Len(rest) = 0 \/ Head(rest) = Sep)
             THEN rest
             ELSE <<Head(s)>> \o rest

\* filepath.Join: the non-empty elements joined by the separator, cleaned.
RECURSIVE JoinRaw(_)
JoinRaw(elems) ==
    IF Len(elems) = 0 THEN <<>>
    ELSE LET rest == JoinRaw(Tail(elems))
         IN  IF Len(Head(elems)) = 0 THEN rest
             ELSE IF Len(rest) = 0 THEN Head(elems)
             ELSE Head(elems) \o <<Sep>> \o rest

Join(elems) ==
    LET raw == JoinRaw(elems)
    IN  IF Len(raw) > 1 /\ raw[Len(raw)] = Sep
        THEN Clean(raw)
        ELSE IF Len(raw) > 0 /\ raw[1] = Sep
             THEN <<Sep>> \o Clean(Tail(raw))
             ELSE Clean(raw)

\* filepath.Dir: the path up to its last separator.
RECURSIVE Dir(_)
Dir(path) ==
    IF Len(path) = 0 THEN <<>>
    ELSE IF path[Len(path)] = Sep THEN SubSeq(path, 1, Len(path) - 1)
    ELSE Dir(SubSeq(path, 1, Len(path) - 1))

\* A directory and every ancestor of it: what os.MkdirAll creates.
RECURSIVE Ancestors(_)
Ancestors(dir) ==
    IF Len(dir) = 0 THEN {}
    ELSE {dir} \cup Ancestors(Dir(dir))

\* ----------------------------------------------------------- transformKey

ShardMin == 5

ShardA == 2

ShardB == 4

\* transformKey with the leaf segment forgotten: only the two directory
\* levels are kept.
transformKey_Prefix(key) ==
    IF Len(key) < ShardMin
    THEN key
    ELSE Join(<<SubSeq(key, 1, ShardA), SubSeq(key, ShardA + 1, ShardB)>>)

\* transformKey with one directory level only.
transformKey_OneLevel(key) ==
    IF Len(key) < ShardMin
    THEN key
    ELSE Join(<<SubSeq(key, 1, ShardA), SubSeq(key, ShardA + 1, Len(key))>>)

transformKey(key) ==
    IF Len(key) < ShardMin
    THEN key
    ELSE Join(<<SubSeq(key, 1, ShardA),
                SubSeq(key, ShardA + 1, ShardB),
                SubSeq(key, ShardB + 1, Len(key))>>)

basePath == <<"l", "f", "s">>

\* path := filepath.Join(s.basePath, transformKey(meta.Oid)) + ".gz"
pathOf(oid) == Join(<<basePath, transformKey(oid)>>) \o gzSuffix


\* ------------------------------------------------------------------- hash

\* The size of a digest in bytes.
HashSize == 3

HexDigits == <<"0", "1", "2", "3", "4", "5", "6", "7",
               "8", "9", "a", "b", "c", "d", "e", "f">>

\* The state of the hash after the bytes b were written to it: an injective
\* numbering of the byte sequences (no two contents collide).
RECURSIVE HashState(_)
HashState(b) ==
    IF Len(b) = 0 THEN 0
    ELSE HashState(SubSeq(b, 1, Len(b) - 1)) * (Cardinality(Byte) + 1) + b[Len(b)] + 1

\* hash.Sum(nil): the digest, HashSize bytes, most significant first.
RECURSIVE BytesOf(_, _)
BytesOf(n, k) ==
    IF k = 0 THEN <<>>
    ELSE Append(BytesOf(n \div 256, k - 1), n % 256)

Sum(b) == BytesOf((HashState(b) * 2654435) % (256 ^ HashSize), HashSize)

\* hex.EncodeToString: two lowercase hexadecimal digits per byte.
RECURSIVE EncodeToString(_)
EncodeToString(bytes) ==
    IF Len(bytes) = 0 THEN <<>>
    ELSE <<HexDigits[(Head(bytes) \div 16) + 1], HexDigits[(Head(bytes) % 16) + 1]>>
         \o EncodeToString(Tail(bytes))

Sha(b) == EncodeToString(Sum(b))

\* A hexadecimal identifier too short to be sharded.
ShortOid == <<"a", "b", "c">>

\* An identifier in the same directory as oid: its last digit changed.
Sibling(oid) == [oid EXCEPT ![Len(oid)] = IF @ = "0" THEN "1" ELSE "0"]

\* Every identifier a caller passes in some run, and the final path of each,
\* computed once.
AllOids == {Sha(c) : c \in Contents} \cup {Sibling(Sha(c)) : c \in Contents} \cup {ShortOid}

Paths == [oid \in AllOids |-> pathOf(oid)]

FinalPath(oid) == Paths[oid]

\* tmpPath := path + ".tmp"
TmpPath(oid) == FinalPath(oid) \o tmpSuffix

\* ------------------------------------------------------------------- gzip

Tok(t, a, b) == [t |-> t, a |-> a, b |-> b]

HeaderTok == Tok("hdr", 0, 0)

\* The CRC of gzip's trailer, as a checksum of the uncompressed bytes.
RECURSIVE Crc(_)
Crc(b) ==
    IF Len(b) = 0 THEN 0
    ELSE (Crc(Tail(b)) * 31 + Head(b) + 1) % 65536

\* gzip.NewWriterLevel: nothing is written until the first Write or Close.
NewWriter == [wroteHeader |-> FALSE, run |-> <<>>, seen |-> <<>>]

\* What the writer in state w emits into the file on Write(<<x>>), and its
\* next state: the header before the first data, and a run of equal bytes
\* once a different byte ends it.
WriteOut(w, c) ==
    (IF w.wroteHeader THEN <<>> ELSE <<HeaderTok>>)
    \o (IF Len(w.run) = 2 /\ w.run[1] # c
        THEN <<Tok("run", w.run[2], w.run[1])>>
        ELSE <<>>)

WriteNext(w, c) ==
    [wroteHeader |-> TRUE,
     run |-> IF Len(w.run) = 2 /\ w.run[1] = c
             THEN <<c, w.run[2] + 1>>
             ELSE <<c, 1>>,
     seen |-> Append(w.seen, c)]

\* Close that writes the trailer without flushing what the compressor holds.
CloseOut_NoFlush(w) ==
    (IF w.wroteHeader THEN <<>> ELSE <<HeaderTok>>)
    \o <<Tok("trl", Crc(w.seen), Len(w.seen))>>

\* What Close emits: the header if no Write wrote it, the pending run, the
\* trailer.
CloseOut(w) ==
    (IF w.wroteHeader THEN <<>> ELSE <<HeaderTok>>)
    \o (IF Len(w.run) = 2 THEN <<Tok("run", w.run[2], w.run[1])>> ELSE <<>>)
    \o <<Tok("trl", Crc(w.seen), Len(w.seen))>>

RECURSIVE Repeat(_, _)
Repeat(c, n) == IF n = 0 THEN <<>> ELSE <<c>> \o Repeat(c, n - 1)

\* Reading a gzip stream to its end: the bytes it yields and how it ends.
\* "EOF" is the clean end (the trailer read and matching).
RECURSIVE Inflate(_, _)
Inflate(toks, out) ==
    IF Len(toks) = 0 THEN [bytes |-> out, err |-> "ErrUnexpectedEOF"]
    ELSE LET h == Head(toks)
         IN  IF h.t = "run" THEN Inflate(Tail(toks), out \o Repeat(h.b, h.a))
             ELSE IF h.t = "trl"
                  THEN [bytes |-> out,
                        err |-> IF h.a = Crc(out) /\ h.b = Len(out)
                                THEN "EOF" ELSE "ErrChecksum"]
                  ELSE [bytes |-> out, err |-> "ErrHeader"]

\* gzip.NewReader: the error of reading the header ("nil" when it is there).
NewReaderErr(toks) ==
    IF Len(toks) = 0 THEN "EOF"
    ELSE IF Head(toks).t = "hdr" THEN "nil" ELSE "ErrHeader"

\* The whole decompressed stream behind a header; without a header there is
\* no stream, only NewReader's error.
ReadAll(toks) ==
    IF NewReaderErr(toks) # "nil"
    THEN [bytes |-> <<>>, err |-> NewReaderErr(toks)]
    ELSE Inflate(Tail(toks), <<>>)

\* ------------------------------------------------------------------ state

Procs == {"p1", "p2"}

\* A content other than b: its last byte changed, or one byte for the empty
\* content.
Other(b) ==
    IF Len(b) = 0 THEN <<0>>
    ELSE [b EXCEPT ![Len(b)] = CHOOSE c \in Byte : c # b[Len(b)]]

VARIABLES
    inputs,     \* what the callers of this run pass: identifiers, sources, sizes, offsets
    dirs,       \* the directories that exist
    dent,       \* the directory entries of files: path -> inode
    ino,        \* the inodes: the gzip tokens written so far, and who created them
    leaked,     \* inodes held open by an os.File nobody closes
    pc,         \* where each caller is in its call
    call,       \* the arguments of each caller's current (or last) call
    loc,        \* the locals of each caller's current call
    res,        \* what each caller's last call returned
    renamed,    \* history: the identifiers a Put has renamed into place
    succeeded,  \* history: the identifiers for which a Put has returned nil
    repeated,   \* history: the identifiers for which a Put has returned nil more than once
    stored      \* history: identifier -> the source of the last Put that returned nil

vars == <<inputs, dirs, dent, ino, leaked, pc, call, loc, res, renamed, succeeded,
          repeated, stored>>

fsVars == <<dirs, dent, ino, leaked>>

histVars == <<renamed, succeeded, repeated, stored>>

NoCall == [op |-> "none", oid |-> <<>>, size |-> 0, src |-> <<>>, srcErr |-> FALSE,
           fromByte |-> 0, statErr |-> "nil"]

NoLoc == [fd |-> 0, g |-> NewWriter, rest |-> <<>>, written |-> 0, hash |-> <<>>,
          err |-> "nil", pos |-> 0, drained |-> FALSE, made |-> 0]

NoRes == [err |-> "pending", bytes |-> <<>>, end |-> "nil", stream |-> FALSE,
          exists |-> FALSE, closed |-> "pending", gErr |-> "nil", fErr |-> "nil",
          path |-> <<>>]

Exist(d, path) == path \in DOMAIN d

Link(d, path, i) == [q \in DOMAIN d \cup {path} |-> IF q = path THEN i ELSE d[q]]

Unlink(d, path) == [q \in DOMAIN d \ {path} |-> d[q]]

\* An inode lives while a directory entry or an open file refers to it.
Refs(d, l, lk) == ({d[q] : q \in DOMAIN d} \cup {l[p].fd : p \in Procs} \cup lk) \ {0}

Sweep(n, d, l, lk) == [i \in DOMAIN n \cap Refs(d, l, lk) |-> n[i]]

NewIno(n) ==
    CHOOSE i \in 1..(Cardinality(DOMAIN n) + 1) :
        i \notin DOMAIN n /\ \A j \in 1..(i - 1) : j \in DOMAIN n

EmptyFn == [q \in {} |-> 0]

\* NewContentStore: the base directory exists, and nothing else.
InitStore ==
    /\ dirs = Ancestors(basePath)
    /\ dent = EmptyFn
    /\ ino = EmptyFn
    /\ leaked = {}
    /\ pc = [p \in Procs |-> "idle"]
    /\ call = [p \in Procs |-> NoCall]
    /\ loc = [p \in Procs |-> NoLoc]
    /\ res = [p \in Procs |-> NoRes]
    /\ renamed = {}
    /\ succeeded = {}
    /\ repeated = {}
    /\ stored = EmptyFn

\* -------------------------------------------------------------------- Put

\* The caller returns from a Put that failed before it created the temp file.
PutReturnEarly(p, err) ==
    /\ pc' = [pc EXCEPT ![p] = "idle"]
    /\ loc' = [loc EXCEPT ![p] = NoLoc]
    /\ res' = [res EXCEPT ![p] = [NoRes EXCEPT !.err = err]]

\* Put is called; os.MkdirAll(dir, 0750) fails where a file is in the way.
Put_MkdirAll(p, oid, size, src, srcErr) ==
    /\ pc[p] = "idle"
    /\ call' = [call EXCEPT ![p] = [NoCall EXCEPT !.op = "Put", !.oid = oid, !.size = size,
                                                  !.src = src, !.srcErr = srcErr]]
    /\ LET dir == Dir(FinalPath(oid))
       IN  IF \E a \in Ancestors(dir) : Exist(dent, a)
           THEN /\ PutReturnEarly(p, "ENOTDIR")
                /\ dirs' = dirs
           ELSE /\ dirs' = dirs \cup Ancestors(dir)
                /\ loc' = [loc EXCEPT ![p] = [NoLoc EXCEPT !.rest = src]]
                /\ pc' = [pc EXCEPT ![p] = "open"]
                /\ res' = [res EXCEPT ![p] = NoRes]
    /\ UNCHANGED <<inputs, dent, ino, leaked, histVars>>

\* OpenFile without O_EXCL: a temp file that exists is opened, not refused.
Put_OpenFile_NoExcl(p) ==
    /\ pc[p] = "open"
    /\ LET tmpPath == TmpPath(call[p].oid)
           i == IF Exist(dent, tmpPath) THEN dent[tmpPath] ELSE NewIno(ino)
       IN  /\ dent' = Link(dent, tmpPath, i)
           /\ ino' = [j \in DOMAIN ino \cup {i} |->
                        IF j = i /\ j \notin DOMAIN ino
                        THEN [data |-> <<>>, size |-> call[p].size]
                        ELSE ino[j]]
           /\ loc' = [loc EXCEPT ![p].fd = i, ![p].g = NewWriter, ![p].made = i]
           /\ pc' = [pc EXCEPT ![p] = "copy"]
    /\ UNCHANGED <<inputs, dirs, leaked, call, res, histVars>>

\* os.OpenFile(tmpPath, O_CREATE|O_WRONLY|O_EXCL, 0640), and on success
\* defer os.Remove(tmpPath), the gzip writer and the hash.
Put_OpenFile(p) ==
    /\ pc[p] = "open"
    /\ LET tmpPath == TmpPath(call[p].oid)
           i == NewIno(ino)
       IN  IF Exist(dent, tmpPath) \/ tmpPath \in dirs
           THEN /\ PutReturnEarly(p, "ErrExist")
                /\ UNCHANGED <<dent, ino>>
           ELSE IF Dir(tmpPath) \notin dirs
           THEN /\ PutReturnEarly(p, "ErrNotExist")
                /\ UNCHANGED <<dent, ino>>
           ELSE /\ dent' = Link(dent, tmpPath, i)
                /\ ino' = [j \in DOMAIN ino \cup {i} |->
                             IF j = i
                             THEN [data |-> <<>>, size |-> call[p].size]
                             ELSE ino[j]]
                /\ loc' = [loc EXCEPT ![p].fd = i, ![p].g = NewWriter, ![p].made = i]
                /\ pc' = [pc EXCEPT ![p] = "copy"]
                /\ res' = res
    /\ UNCHANGED <<inputs, dirs, leaked, call, histVars>>

\* One round of io.Copy(hw, r): the next byte of the source goes to the hash
\* and through the gzip writer into the file.
Put_Copy(p) ==
    /\ pc[p] = "copy"
    /\ loc[p].rest # <<>>
    /\ LET c == Head(loc[p].rest)
           l == loc[p]
       IN  /\ ino' = [ino EXCEPT ![l.fd].data = @ \o WriteOut(l.g, c)]
           /\ loc' = [loc EXCEPT ![p].g = WriteNext(l.g, c),
                                 ![p].hash = Append(l.hash, c),
                                 ![p].written = l.written + 1,
                                 ![p].rest = Tail(l.rest)]
    /\ UNCHANGED <<inputs, dirs, dent, leaked, pc, call, res, histVars>>

\* The source fails: file.Close() and return err, which runs the deferred
\* removal.
Put_CopyFail(p) ==
    /\ pc[p] = "copy"
    /\ loc[p].rest = <<>>
    /\ call[p].srcErr
    /\ loc' = [loc EXCEPT ![p].fd = 0, ![p].err = "ErrSource"]
    /\ ino' = Sweep(ino, dent, loc', leaked)
    /\ pc' = [pc EXCEPT ![p] = "remove"]
    /\ UNCHANGED <<inputs, dirs, dent, leaked, call, res, histVars>>

\* The source ends: g.Close() writes what the compressor holds and the trailer.
Put_GzClose(p) ==
    /\ pc[p] = "copy"
    /\ loc[p].rest = <<>>
    /\ ~call[p].srcErr
    /\ ino' = [ino EXCEPT ![loc[p].fd].data = @ \o CloseOut(loc[p].g)]
    /\ pc' = [pc EXCEPT ![p] = "verify"]
    /\ UNCHANGED <<inputs, dirs, dent, leaked, call, loc, res, histVars>>

\* g.Close() fails (the write of what the compressor holds fails):
\* file.Close() and return err, which runs the deferred removal.
Put_GzCloseFail(p) ==
    /\ pc[p] = "copy"
    /\ loc[p].rest = <<>>
    /\ ~call[p].srcErr
    /\ \E e \in inputs.gzCloseErrs \ {"nil"} :
          loc' = [loc EXCEPT ![p].fd = 0, ![p].err = e]
    /\ ino' = Sweep(ino, dent, loc', leaked)
    /\ pc' = [pc EXCEPT ![p] = "remove"]
    /\ UNCHANGED <<inputs, dirs, dent, leaked, call, res, histVars>>

\* shaStr := hex.EncodeToString(hash.Sum(nil))
shaStr(l) == EncodeToString(Sum(l.hash))

\* The checks of Put without the size check.
PutCheck_NoSize(meta, l) ==
    IF shaStr(l) # meta.oid THEN "errHashMismatch" ELSE "nil"

\* The checks of Put without the hash check.
PutCheck_NoHash(meta, l) ==
    IF l.written # meta.size THEN "errSizeMismatch" ELSE "nil"

\* The checks of Put with the hash check first.
PutCheck_HashFirst(meta, l) ==
    IF shaStr(l) # meta.oid THEN "errHashMismatch"
    ELSE IF l.written # meta.size THEN "errSizeMismatch"
    ELSE "nil"

\* The checks of Put, in the order of the code: the error Put returns, or
\* "nil" when the rename is next.
PutCheck(meta, l) ==
    IF l.written # meta.size THEN "errSizeMismatch"
    ELSE IF shaStr(l) # meta.oid THEN "errHashMismatch"
    ELSE "nil"

\* file.Close(), then the size check and the hash check.
Put_Verify(p) ==
    /\ pc[p] = "verify"
    /\ loc' = [loc EXCEPT ![p].fd = 0, ![p].err = PutCheck(call[p], loc[p])]
    /\ ino' = Sweep(ino, dent, loc', leaked)
    /\ pc' = [pc EXCEPT ![p] = IF PutCheck(call[p], loc[p]) = "nil" THEN "rename" ELSE "remove"]
    /\ UNCHANGED <<inputs, dirs, dent, leaked, call, res, histVars>>

\* A rename that refuses to replace a file at the final path.
Put_Rename_NoReplace(p) ==
    /\ pc[p] = "rename"
    /\ LET path == FinalPath(call[p].oid)
           tmpPath == TmpPath(call[p].oid)
       IN  IF ~Exist(dent, tmpPath) \/ Exist(dent, path)
           THEN /\ loc' = [loc EXCEPT ![p].err = IF Exist(dent, path)
                                                 THEN "ErrExist" ELSE "ErrNotExist"]
                /\ UNCHANGED <<dent, ino, renamed>>
           ELSE /\ dent' = Link(Unlink(dent, tmpPath), path, dent[tmpPath])
                /\ ino' = Sweep(ino, dent', loc, leaked)
                /\ renamed' = renamed \cup {call[p].oid}
                /\ loc' = loc
    /\ pc' = [pc EXCEPT ![p] = "remove"]
    /\ UNCHANGED <<inputs, dirs, leaked, call, res, succeeded, repeated, stored>>

\* os.Rename(tmpPath, path): whatever file is at tmpPath moves to path and
\* replaces what was there.
Put_Rename(p) ==
    /\ pc[p] = "rename"
    /\ LET path == FinalPath(call[p].oid)
           tmpPath == TmpPath(call[p].oid)
       IN  IF ~Exist(dent, tmpPath)
           THEN /\ loc' = [loc EXCEPT ![p].err = "ErrNotExist"]
                /\ UNCHANGED <<dent, ino, renamed>>
           ELSE /\ dent' = Link(Unlink(dent, tmpPath), path, dent[tmpPath])
                /\ ino' = Sweep(ino, dent', loc, leaked)
                /\ renamed' = renamed \cup {call[p].oid}
                /\ loc' = loc
    /\ pc' = [pc EXCEPT ![p] = "remove"]
    /\ UNCHANGED <<inputs, dirs, leaked, call, res, succeeded, repeated, stored>>

\* Put returns with nothing deferred: the temp path is left as it is.
Put_Remove_Keep(p) ==
    /\ pc[p] = "remove"
    /\ loc' = [loc EXCEPT ![p] = NoLoc]
    /\ pc' = [pc EXCEPT ![p] = "idle"]
    /\ res' = [res EXCEPT ![p] = [NoRes EXCEPT !.err = loc[p].err]]
    /\ succeeded' = IF loc[p].err = "nil" THEN succeeded \cup {call[p].oid} ELSE succeeded
    /\ repeated' = IF loc[p].err = "nil" /\ call[p].oid \in succeeded
                   THEN repeated \cup {call[p].oid}
                   ELSE repeated
    /\ stored' = IF loc[p].err = "nil"
                 THEN [o \in DOMAIN stored \cup {call[p].oid} |->
                         IF o = call[p].oid THEN call[p].src ELSE stored[o]]
                 ELSE stored
    /\ UNCHANGED <<inputs, dirs, dent, ino, leaked, call, renamed>>

\* The deferred os.Remove(tmpPath), its error dropped, and Put returns.
Put_Remove(p) ==
    /\ pc[p] = "remove"
    /\ dent' = Unlink(dent, TmpPath(call[p].oid))
    /\ loc' = [loc EXCEPT ![p] = NoLoc]
    /\ ino' = Sweep(ino, dent', loc', leaked)
    /\ pc' = [pc EXCEPT ![p] = "idle"]
    /\ res' = [res EXCEPT ![p] = [NoRes EXCEPT !.err = loc[p].err]]
    /\ succeeded' = IF loc[p].err = "nil" THEN succeeded \cup {call[p].oid} ELSE succeeded
    /\ repeated' = IF loc[p].err = "nil" /\ call[p].oid \in succeeded
                   THEN repeated \cup {call[p].oid}
                   ELSE repeated
    /\ stored' = IF loc[p].err = "nil"
                 THEN [o \in DOMAIN stored \cup {call[p].oid} |->
                         IF o = call[p].oid THEN call[p].src ELSE stored[o]]
                 ELSE stored
    /\ UNCHANGED <<inputs, dirs, leaked, call, renamed>>

\* The process of a caller dies inside Put: its open file is closed by the
\* system and nothing that was deferred runs.
Crash(p) ==
    /\ call[p].op = "Put"
    /\ pc[p] \in {"open", "copy", "verify", "rename", "remove"}
    /\ loc' = [loc EXCEPT ![p] = NoLoc]
    /\ ino' = Sweep(ino, dent, loc', leaked)
    /\ pc' = [pc EXCEPT ![p] = "idle"]
    /\ res' = [res EXCEPT ![p] = [NoRes EXCEPT !.err = "crashed"]]
    /\ UNCHANGED <<inputs, dirs, dent, leaked, call, histVars>>

\* -------------------------------------------------------------------- Get

\* The skip with its error dropped.
CopyNErr_Swallow(r, fromByte) == "nil"

\* io.CopyN(ioutil.Discard, g, fromByte) on a stream that holds the bytes of
\* r and ends as r.err: nil when fromByte bytes were there, io.EOF at a clean
\* end before them, the stream's error otherwise.
CopyNErr(r, fromByte) ==
    IF Len(r.bytes) >= fromByte THEN "nil"
    ELSE IF r.err = "EOF" THEN "EOF" ELSE r.err

\* Get: os.Open(path), gzip.NewReader(f), the skip of fromByte bytes, and
\* return &bothCloser{f, g}, err.  When NewReader fails the file stays open.
Get(p, oid, fromByte) ==
    /\ pc[p] = "idle"
    /\ call' = [call EXCEPT ![p] = [NoCall EXCEPT !.op = "Get", !.oid = oid,
                                                  !.fromByte = fromByte]]
    /\ LET path == FinalPath(oid)
       IN  IF ~Exist(dent, path)
           THEN /\ res' = [res EXCEPT ![p] = [NoRes EXCEPT !.err = "ErrNotExist"]]
                /\ UNCHANGED <<pc, loc, leaked>>
           ELSE LET f == dent[path]
                    r == ReadAll(ino[f].data)
                IN  IF NewReaderErr(ino[f].data) # "nil"
                    THEN /\ res' = [res EXCEPT ![p] =
                                      [NoRes EXCEPT !.err = NewReaderErr(ino[f].data)]]
                         /\ leaked' = leaked \cup {f}
                         /\ UNCHANGED <<pc, loc>>
                    ELSE /\ res' = [res EXCEPT ![p] =
                                      [NoRes EXCEPT !.stream = TRUE,
                                                    !.err = IF fromByte > 0
                                                            THEN CopyNErr(r, fromByte)
                                                            ELSE "nil"]]
                         /\ loc' = [loc EXCEPT ![p] =
                                      [NoLoc EXCEPT !.fd = f,
                                                    !.pos = IF fromByte < Len(r.bytes)
                                                            THEN fromByte
                                                            ELSE Len(r.bytes)]]
                         /\ pc' = [pc EXCEPT ![p] = "stream"]
                         /\ leaked' = leaked
    /\ UNCHANGED <<inputs, dirs, dent, ino, histVars>>

\* The caller reads the returned stream to its end: bothCloser.Read until an
\* error.  A stream that failed during the skip yields nothing more.
bothCloser_Read(p) ==
    /\ pc[p] = "stream"
    /\ ~loc[p].drained
    /\ LET r == ReadAll(ino[loc[p].fd].data)
       IN  res' = [res EXCEPT ![p].bytes = IF res[p].err = "nil"
                                           THEN SubSeq(r.bytes, loc[p].pos + 1, Len(r.bytes))
                                           ELSE <<>>,
                              ![p].end = IF res[p].err = "nil" THEN r.err ELSE res[p].err]
    /\ loc' = [loc EXCEPT ![p].drained = TRUE]
    /\ UNCHANGED <<inputs, fsVars, pc, call, histVars>>

\* err := b.g.Close(); if err := b.f.Close(); err != nil { return err };
\* return err
CloseErr(gErr, fErr) == IF fErr # "nil" THEN fErr ELSE gErr

\* bothCloser.Close: g.Close(), which returns gErr, then f.Close(), which
\* returns fErr and releases the file whatever g.Close() returned.
bothCloser_Close(p, gErr, fErr) ==
    /\ pc[p] = "stream"
    /\ loc' = [loc EXCEPT ![p] = NoLoc]
    /\ ino' = Sweep(ino, dent, loc', leaked)
    /\ pc' = [pc EXCEPT ![p] = "idle"]
    /\ res' = [res EXCEPT ![p].closed = CloseErr(gErr, fErr),
                          ![p].gErr = gErr, ![p].fErr = fErr]
    /\ UNCHANGED <<inputs, dirs, dent, leaked, call, histVars>>

\* The runtime finalizes an os.File that was dropped without Close.
Finalize(f) ==
    /\ f \in leaked
    /\ leaked' = leaked \ {f}
    /\ ino' = Sweep(ino, dent, loc, leaked')
    /\ UNCHANGED <<inputs, dirs, dent, pc, call, loc, res, histVars>>

\* ----------------------------------------------------------- transformKey

\* A call of transformKey(key) by caller p, and what it returns.
Shard(p, key) ==
    /\ pc[p] = "idle"
    /\ call' = [call EXCEPT ![p] = [NoCall EXCEPT !.op = "transformKey", !.oid = key]]
    /\ res' = [res EXCEPT ![p] = [NoRes EXCEPT !.err = "nil", !.path = transformKey(key)]]
    /\ UNCHANGED <<inputs, fsVars, pc, loc, histVars>>

\* ----------------------------------------------------------------- Exists

\* Exists with the test of the error inverted.
Exists_Inverted(p, oid, statErr) ==
    /\ pc[p] = "idle"
    /\ call' = [call EXCEPT ![p] = [NoCall EXCEPT !.op = "Exists", !.oid = oid,
                                                  !.statErr = statErr]]
    /\ LET err == IF statErr # "nil" THEN statErr
                  ELSE IF Exist(dent, FinalPath(oid)) THEN "nil" ELSE "ErrNotExist"
       IN  res' = [res EXCEPT ![p] = [NoRes EXCEPT !.err = "nil",
                                                   !.exists = (err = "ErrNotExist")]]
    /\ UNCHANGED <<inputs, fsVars, pc, loc, histVars>>

\* Exists: false when os.Stat(path) fails with a not-exist error, true
\* otherwise.
Exists(p, oid, statErr) ==
    /\ pc[p] = "idle"
    /\ call' = [call EXCEPT ![p] = [NoCall EXCEPT !.op = "Exists", !.oid = oid,
                                                  !.statErr = statErr]]
    /\ LET err == IF statErr # "nil" THEN statErr
                  ELSE IF Exist(dent, FinalPath(oid)) THEN "nil" ELSE "ErrNotExist"
       IN  res' = [res EXCEPT ![p] = [NoRes EXCEPT !.err = "nil",
                                                   !.exists = (err # "ErrNotExist")]]
    /\ UNCHANGED <<inputs, fsVars, pc, loc, histVars>>

\* ------------------------------------------------------- specifications

\* What the callers of one run pass: each caller its identifiers, and all of
\* them the sources, sizes and offsets.
World(oids, srcs, sizes, offs, srcErrs) ==
    [oids |-> oids, srcs |-> srcs, sizes |-> sizes, offs |-> offs,
     srcErrs |-> srcErrs, statErrs |-> {"nil"}, gzCloseErrs |-> {"nil"},
     fileCloseErrs |-> {"nil"}]

\* A call of Put by caller p.
PutCall(p) ==
    \E oid \in inputs.oids[p], size \in inputs.sizes, src \in inputs.srcs,
       e \in inputs.srcErrs : Put_MkdirAll(p, oid, size, src, e)

\* One step of caller p inside Put, its source delivering every byte.
PutStep(p) ==
    \/ Put_OpenFile(p)
    \/ Put_Copy(p)
    \/ Put_GzClose(p)
    \/ Put_Verify(p)
    \/ Put_Rename(p)
    \/ Put_Remove(p)

\* The world w with file-system faults: the errors os.Stat may fail with,
\* and the errors the Close of the decompressor and of the file may return.
WithFaults(w, statErrs, gzErrs, fileErrs) ==
    [w EXCEPT !.statErrs = statErrs, !.gzCloseErrs = gzErrs, !.fileCloseErrs = fileErrs]

\* A call of Get by caller p, and what the caller does with the stream.
GetStep(p) ==
    \/ \E oid \in inputs.oids[p], k \in inputs.offs : Get(p, oid, k)
    \/ bothCloser_Read(p)
    \/ \E ge \in inputs.gzCloseErrs, fe \in inputs.fileCloseErrs : bothCloser_Close(p, ge, fe)

\* A call of Exists by caller p.
ExistsCall(p) ==
    \E oid \in inputs.oids[p], e \in inputs.statErrs : Exists(p, oid, e)

\* Spec: concurrent Puts on one identifier, with crashes.  The identifier is
\* the hash of one content; the sources are that content and another one of
\* the same length.
RaceGood == <<0, 1>>

RaceOther == <<1, 1>>

Init ==
    /\ inputs = World([p \in Procs |-> {Sha(RaceGood)}], {RaceGood, RaceOther},
                      {Len(RaceGood)}, {0}, {FALSE})
    /\ InitStore

Next ==
    \/ \E p \in Procs : PutCall(p)
    \/ \E p \in Procs : PutStep(p)
    \/ \E p \in Procs : ExistsCall(p)
    \/ \E p \in Procs : Crash(p)

Spec == Init /\ [][Next]_vars

\* SpecSeq: one caller, one call after another, no crash.  The run is about
\* the identifier of one content b and about a short identifier; the sources
\* are b and another content, which may fail at their end, the sizes and
\* offsets all that the bounds allow.
SeqProc == "p1"

InitSeq ==
    /\ \E b \in Contents :
          inputs = World([p \in Procs |-> {Sha(b), ShortOid}], {b, Other(b)}, 0..MaxLen,
                         0..(MaxLen + MaxOver), BOOLEAN)
    /\ InitStore

NextSeq ==
    \/ PutCall(SeqProc)
    \/ PutStep(SeqProc)
    \/ Put_CopyFail(SeqProc)
    \/ GetStep(SeqProc)
    \/ ExistsCall(SeqProc)

SpecSeq == InitSeq /\ [][NextSeq]_vars

\* SpecFrame: two callers that never use the same identifier.  The first
\* puts to the identifier of one content; the second to the identifier of
\* another content, to an identifier in the same directory as the first's,
\* and to a short one.
InitFrame ==
    /\ inputs = World([p \in Procs |->
                         IF p = "p1" THEN {Sha(RaceGood)}
                         ELSE {Sha(RaceOther), Sibling(Sha(RaceGood)), ShortOid}],
                      {RaceGood, RaceOther}, {Len(RaceGood)}, {0}, {FALSE})
    /\ InitStore

NextFrame ==
    \/ \E p \in Procs : PutCall(p)
    \/ \E p \in Procs : PutStep(p)

SpecFrame == InitFrame /\ [][NextFrame]_vars

\* SpecFault: one caller, one call after another, on a file system that may
\* fail: os.Stat with a permission error, the two Closes of a stream with an
\* error of their own.
InitFault ==
    /\ inputs = WithFaults(World([p \in Procs |-> {Sha(RaceGood), ShortOid}], {RaceGood},
                                 {Len(RaceGood)}, {0, Len(RaceGood) + 1}, {FALSE}),
                           {"nil", "EACCES"}, {"nil", "ErrGzClose"}, {"nil", "ErrFileClose"})
    /\ InitStore

NextFault ==
    \/ PutCall(SeqProc)
    \/ PutStep(SeqProc)
    \/ GetStep(SeqProc)
    \/ ExistsCall(SeqProc)

SpecFault == InitFault /\ [][NextFault]_vars

\* SpecKey: transformKey applied by two callers, each to a hexadecimal key of
\* its own, for every pair of keys of every length up to MaxKeyLen.
KeyDigits == {"0", "f"}

Keys == SeqsUpTo(KeyDigits, MaxKeyLen)

InitKey ==
    /\ \E a \in Keys, b \in Keys :
          inputs = World([p \in Procs |-> IF p = "p1" THEN {a} ELSE {b}], {}, {}, {}, {})
    /\ InitStore

NextKey == \E p \in Procs : \E key \in inputs.oids[p] : Shard(p, key)

SpecKey == InitKey /\ [][NextKey]_vars

\* SpecExit: concurrent Puts on one identifier that leave Put by every exit
\* and never crash.  The sources are the content of the identifier, another
\* content of that length and a shorter one; a source may fail at its end and
\* so may the Close of the compressor.
RaceShort == <<1>>

InitExit ==
    /\ inputs = WithFaults(World([p \in Procs |-> {Sha(RaceGood)}],
                                 {RaceGood, RaceOther, RaceShort}, {Len(RaceGood)}, {0},
                                 BOOLEAN),
                           {"nil"}, {"nil", "ErrGzClose"}, {"nil"})
    /\ InitStore

NextExit ==
    \/ \E p \in Procs : PutCall(p)
    \/ \E p \in Procs : PutStep(p)
    \/ \E p \in Procs : Put_CopyFail(p)
    \/ \E p \in Procs : Put_GzCloseFail(p)

SpecExit == InitExit /\ [][NextExit]_vars

\* ------------------------------------------------------------- properties

\* The identifiers some caller of this run passes.
Oids == UNION {inputs.oids[p] : p \in Procs}

\* The file at the final path of oid, in the file system of entries d and
\* inodes n.
FileAt(d, n, oid) == n[d[FinalPath(oid)]]

FinalFile(oid) == FileAt(dent, ino, oid)

\* What a reader of file f gets: the header's error, the bytes, the end.
Contents_Of(f) ==
    [hdr |-> NewReaderErr(f.data), bytes |-> ReadAll(f.data).bytes, end |-> ReadAll(f.data).err]

\* File f is a complete gzip stream whose bytes have the size of the
\* descriptor of the Put that wrote it and hash to oid.
Verified(f, oid) ==
    /\ NewReaderErr(f.data) = "nil"
    /\ ReadAll(f.data).err = "EOF"
    /\ Len(ReadAll(f.data).bytes) = f.size
    /\ Sha(ReadAll(f.data).bytes) = oid

\* C1: a file present at the final path of an identifier is a complete,
\* verified object, under any interleaving of Puts for the identifier.
C1_FinalPathVerified ==
    \A oid \in Oids : Exist(dent, FinalPath(oid)) => Verified(FinalFile(oid), oid)

\* Caller p takes a step of its own call (or starts or ends one).
Acts(p) == <<pc[p], call[p], loc[p], res[p]>>' # <<pc[p], call[p], loc[p], res[p]>>

\* Caller p returns from Exists in this step.
ExistsReturns(p) == pc[p] = "idle" /\ call'[p].op = "Exists" /\ Acts(p)

\* Caller p, whose Put passed the size check and the hash check, renames in
\* this step.
VerifiedRename(p, oid) ==
    /\ pc[p] = "rename" /\ pc'[p] = "remove"
    /\ call[p].op = "Put" /\ call[p].oid = oid
    /\ loc[p].written = call[p].size
    /\ shaStr(loc[p]) = call[p].oid
    /\ loc'[p].err = "nil"

\* C4: Exists returns false as long as no Put for the identifier has passed
\* both checks and renamed, and true once a Put for it has returned success;
\* an object appears at the final path only by the rename of a Put that
\* passed both checks.
C4_Existence ==
    [][/\ \A p \in Procs : ExistsReturns(p) =>
             /\ call'[p].oid \notin renamed => ~res'[p].exists
             /\ call'[p].oid \in succeeded => res'[p].exists
       /\ \A oid \in Oids :
             (~Exist(dent, FinalPath(oid)) /\ Exist(dent', FinalPath(oid)))
                => \E p \in Procs : VerifiedRename(p, oid)
       /\ \A oid \in Oids :
             /\ oid \notin renamed => ~Exist(dent, FinalPath(oid))
             /\ oid \in succeeded => Exist(dent, FinalPath(oid))]_vars

\* Both answers of Exists have been given: false before any rename, true
\* after a Put returned success.
C4_Witness ==
    /\ call["p1"].op = "Exists" /\ pc["p1"] = "idle"
    /\ res["p1"].exists /\ call["p1"].oid \in succeeded
    /\ call["p2"].op = "Exists" /\ ~res["p2"].exists /\ call["p2"].oid \in succeeded

\* C5: once an object is present at the final path of an identifier it stays
\* present and a reader gets the same bytes from it, whatever step is taken.
C5_NeverMutated ==
    [][\A oid \in Oids :
          Exist(dent, FinalPath(oid)) =>
             /\ Exist(dent', FinalPath(oid))
             /\ Contents_Of(FileAt(dent', ino', oid)) = Contents_Of(FileAt(dent, ino, oid))]_vars

\* Caller p has created the temp file of oid, still holds it open at the temp
\* path and is still streaming into it.
Streaming(p, oid) ==
    /\ pc[p] = "copy" /\ call[p].oid = oid
    /\ Exist(dent, TmpPath(oid)) /\ dent[TmpPath(oid)] = loc[p].fd

\* Caller q attempts the creation of its temp file in this step.
Opens(q) == pc[q] = "open" /\ pc'[q] # "open" /\ res'[q].err # "crashed"

\* C9: a Put that reaches the exclusive creation of the temp file while
\* another Put for the identifier holds the temp file and is streaming
\* returns the already-exists error at once, schedules no cleanup, publishes
\* nothing and leaves the file system and the first writer as they were.
C9_SecondWriterFails ==
    [][\A p \in Procs : \A q \in Procs \ {p} :
          (Streaming(p, call[q].oid) /\ Opens(q)) =>
             /\ pc'[q] = "idle" /\ res'[q].err = "ErrExist"
             /\ <<dirs, dent, ino, renamed>>' = <<dirs, dent, ino, renamed>>
             /\ <<pc[p], call[p], loc[p]>>' = <<pc[p], call[p], loc[p]>>]_vars

\* The second writer has failed with the already-exists error and the first
\* one has then published what it streamed.
C9_Witness ==
    /\ res["p2"].err = "ErrExist" /\ pc["p2"] = "idle" /\ call["p2"].op = "Put"
    /\ pc["p1"] = "remove" /\ loc["p1"].err = "nil"
    /\ ~Exist(dent, TmpPath(call["p1"].oid))
    /\ Exist(dent, FinalPath(call["p1"].oid))
    /\ succeeded = {}

\* Caller p has returned from a call of op.
Returned(p, op) == pc[p] = "idle" /\ call[p].op = op /\ res[p].err # "pending"

\* The descriptor of call c matches its source, and the source does not fail.
Valid(c) == ~c.srcErr /\ c.size = Len(c.src) /\ Sha(c.src) = c.oid

\* The caller has read the stream of its Get to the end.
Drained(p) == res[p].end # "nil"

\* C2: a Put with descriptor {hash(b), len(b)} and source b returns nil, and
\* a Get of the identifier from byte 0 after it returns, without error, a
\* stream that yields exactly b and then ends.
C2_RoundTrip ==
    \A p \in Procs :
       /\ (Returned(p, "Put") /\ Valid(call[p])) => res[p].err = "nil"
       /\ (call[p].op = "Get" /\ call[p].fromByte = 0 /\ call[p].oid \in DOMAIN stored) =>
             /\ res[p].err = "nil" /\ res[p].stream
             /\ Drained(p) => (res[p].bytes = stored[call[p].oid] /\ res[p].end = "EOF")

\* A Get from byte 0 has yielded a stored content of the greatest length.
C2_Witness ==
    \E p \in Procs :
       /\ call[p].op = "Get" /\ call[p].fromByte = 0 /\ Drained(p)
       /\ call[p].oid \in DOMAIN stored
       /\ res[p].bytes = stored[call[p].oid] /\ Len(res[p].bytes) = MaxLen

\* C3: for a stored object of bytes b, Get from byte k yields exactly b[k:]
\* without error when 0 <= k <= len(b), and returns the end-of-stream error
\* to the caller when k > len(b).
C3_PartialRead ==
    \A p \in Procs :
       (call[p].op = "Get" /\ call[p].oid \in DOMAIN stored) =>
          LET b == stored[call[p].oid]
              k == call[p].fromByte
          IN  IF k <= Len(b)
              THEN /\ res[p].err = "nil" /\ res[p].stream
                   /\ Drained(p) =>
                         (res[p].bytes = SubSeq(b, k + 1, Len(b)) /\ res[p].end = "EOF")
              ELSE /\ res[p].err = "EOF"
                   /\ Drained(p) => res[p].bytes = <<>>

\* A Get from inside the object has yielded its tail, not the whole of it.
C3_Witness ==
    \E p \in Procs :
       /\ call[p].op = "Get" /\ call[p].oid \in DOMAIN stored /\ Drained(p)
       /\ call[p].fromByte > 0 /\ call[p].fromByte < Len(stored[call[p].oid])
       /\ res[p].bytes = SubSeq(stored[call[p].oid], call[p].fromByte + 1,
                                Len(stored[call[p].oid]))

\* The entry of the final path of oid is the same before and after the step.
SameFinalEntry(oid) ==
    /\ Exist(dent', FinalPath(oid)) = Exist(dent, FinalPath(oid))
    /\ Exist(dent, FinalPath(oid)) => dent'[FinalPath(oid)] = dent[FinalPath(oid)]

\* Caller p is in a Put whose source delivers all its bytes.
InPut(p) == call[p].op = "Put" /\ pc[p] # "idle" /\ ~call[p].srcErr

SizeDiffers(c) == c.size # Len(c.src)

HashDiffers(c) == c.size = Len(c.src) /\ Sha(c.src) # c.oid

\* C6 as stated: after a Put whose Size differs from the bytes read, which
\* fails with the size-mismatch error, no object is at the final path.
C6_NoObjectAfterSizeMismatch ==
    \A p \in Procs :
       (Returned(p, "Put") /\ ~call[p].srcErr /\ SizeDiffers(call[p])) =>
          /\ res[p].err = "errSizeMismatch"
          /\ ~Exist(dent, FinalPath(call[p].oid))

\* C6 as amended: a Put whose Size differs from the bytes read returns the
\* size-mismatch error, never reaches the rename, and none of its steps
\* changes the entry of the final path; when it returns, an object is at the
\* final path only if some Put has renamed one there.
C6_SizeMismatchRejected ==
    [][\A p \in Procs :
          (InPut(p) /\ SizeDiffers(call[p]) /\ Acts(p)) =>
             /\ SameFinalEntry(call[p].oid)
             /\ pc'[p] # "rename"
             /\ pc'[p] = "idle" =>
                   /\ res'[p].err = "errSizeMismatch"
                   /\ call[p].oid \notin renamed' => ~Exist(dent', FinalPath(call[p].oid))]_vars

\* A Put has returned the size-mismatch error and nothing is at the final
\* path.
C6_Witness ==
    \E p \in Procs :
       /\ Returned(p, "Put") /\ res[p].err = "errSizeMismatch"
       /\ Len(call[p].oid) >= ShardMin
       /\ ~Exist(dent, FinalPath(call[p].oid))

\* C7 as stated: after a Put whose identifier differs from the hash of the
\* bytes read, which fails with the hash-mismatch error, no object is at the
\* final path of that identifier.
C7_NoObjectAfterHashMismatch ==
    \A p \in Procs :
       (Returned(p, "Put") /\ ~call[p].srcErr /\ HashDiffers(call[p])) =>
          /\ res[p].err = "errHashMismatch"
          /\ ~Exist(dent, FinalPath(call[p].oid))

\* C7 as amended: a Put whose identifier differs from the hash of the bytes
\* read (the Size matching) returns the hash-mismatch error, never reaches
\* the rename, and none of its steps changes the entry of the final path;
\* when it returns, an object is at the final path only if some Put has
\* renamed one there.
C7_HashMismatchRejected ==
    [][\A p \in Procs :
          (InPut(p) /\ HashDiffers(call[p]) /\ Acts(p)) =>
             /\ SameFinalEntry(call[p].oid)
             /\ pc'[p] # "rename"
             /\ pc'[p] = "idle" =>
                   /\ res'[p].err = "errHashMismatch"
                   /\ call[p].oid \notin renamed' => ~Exist(dent', FinalPath(call[p].oid))]_vars

\* A Put has returned the hash-mismatch error and nothing is at the final
\* path.
C7_Witness ==
    \E p \in Procs :
       /\ Returned(p, "Put") /\ res[p].err = "errHashMismatch"
       /\ Len(call[p].oid) >= ShardMin
       /\ ~Exist(dent, FinalPath(call[p].oid))

\* C8: one call after another, every Put with a valid descriptor and content
\* returns nil, also when the object is already stored, and leaves exactly
\* one file, at the final path, verified and holding the content, and no
\* temp file.
C8_IdempotentRepublish ==
    \A p \in Procs :
       (Returned(p, "Put") /\ Valid(call[p])) =>
          /\ res[p].err = "nil"
          /\ DOMAIN dent = {FinalPath(call[p].oid)}
          /\ Verified(FinalFile(call[p].oid), call[p].oid)
          /\ ReadAll(FinalFile(call[p].oid).data).bytes = call[p].src

\* A second Put of the same valid descriptor and content has returned nil.
C8_Witness ==
    \E p \in Procs :
       /\ Returned(p, "Put") /\ Valid(call[p]) /\ res[p].err = "nil"
       /\ call[p].oid \in repeated

\* What is at path, in the file system of entries d and inodes n.
At(d, n, path) == IF Exist(d, path) THEN <<d[path], n[d[path]]>> ELSE <<>>

\* What a Put returns when nothing interferes with it: the verdict of its
\* checks on its own source.
Outcome(c) ==
    IF c.size # Len(c.src) THEN "errSizeMismatch"
    ELSE IF Sha(c.src) # c.oid THEN "errHashMismatch"
    ELSE "nil"

\* C10: two distinct identifiers never share a final or a temp path; every
\* step of a Put for one identifier leaves the final path and the temp path
\* of every other identifier as they were; and what a Put returns is decided
\* by its own descriptor and source, whatever the Puts for other identifiers
\* do meanwhile.
C10_NoInterference ==
    [][/\ \A a \in Oids : \A b \in Oids \ {a} :
             /\ FinalPath(a) # FinalPath(b) /\ TmpPath(a) # TmpPath(b)
             /\ FinalPath(a) # TmpPath(b)
       /\ \A p \in Procs : \A b \in Oids \ {call'[p].oid} :
             (Acts(p) /\ call'[p].op = "Put") =>
                /\ At(dent', ino', FinalPath(b)) = At(dent, ino, FinalPath(b))
                /\ At(dent', ino', TmpPath(b)) = At(dent, ino, TmpPath(b))
       /\ \A p \in Procs :
             (call'[p].op = "Put" /\ pc'[p] = "idle" /\ res'[p].err # "pending") =>
                res'[p].err = Outcome(call'[p])]_vars

\* Two Puts for identifiers of the same directory are both streaming into
\* their temp files, after a Put for the first identifier has published.
C10_Witness ==
    /\ pc["p1"] = "copy" /\ pc["p2"] = "copy"
    /\ call["p1"].oid # call["p2"].oid
    /\ Dir(FinalPath(call["p1"].oid)) = Dir(FinalPath(call["p2"].oid))
    /\ call["p1"].oid \in succeeded
    /\ Exist(dent, TmpPath(call["p1"].oid)) /\ Exist(dent, TmpPath(call["p2"].oid))

\* C11 as stated: whenever the stat of the final path fails with an error
\* that is not not-found, Exists returns false; it returns true only when the
\* stat succeeds.
C11_StatErrorIsAbsence ==
    \A p \in Procs :
       Returned(p, "Exists") =>
          /\ call[p].statErr \notin {"nil", "ErrNotExist"} => ~res[p].exists
          /\ res[p].exists => call[p].statErr = "nil"

\* The caller has closed the stream its Get returned.
Closed(p) == call[p].op = "Get" /\ pc[p] = "idle" /\ res[p].closed # "pending"

\* C12 as stated: Close releases the decompressor and the file, and returns
\* the decompressor's error when its close fails, even when the file's close
\* fails too; the file's error when only that fails; nil when neither fails.
C12_CloseFirstFailure ==
    \A p \in Procs :
       Closed(p) =>
          /\ loc[p].fd = 0
          /\ res[p].gErr # "nil" => res[p].closed = res[p].gErr
          /\ (res[p].gErr = "nil" /\ res[p].fErr # "nil") => res[p].closed = res[p].fErr
          /\ (res[p].gErr = "nil" /\ res[p].fErr = "nil") => res[p].closed = "nil"

\* The key unchanged when it is shorter than 5, else its first two
\* characters, its next two and the rest, with a separator between them.
Segments(key) ==
    IF Len(key) < 5 THEN key
    ELSE SubSeq(key, 1, 2) \o <<"/">> \o SubSeq(key, 3, 4) \o <<"/">>
         \o SubSeq(key, 5, Len(key))

Sharded(p) == call[p].op = "transformKey" /\ res[p].err = "nil"

\* C13: transformKey(id) is id when len(id) < 5 and otherwise id[0:2],
\* id[2:4], id[4:] joined by the separator ("abc" -> "abc", "abcdef1234" ->
\* "ab/cd/ef1234"); over hexadecimal identifiers distinct identifiers get
\* distinct paths.
C13_Sharding ==
    /\ transformKey(<<"a", "b", "c">>) = <<"a", "b", "c">>
    /\ transformKey(<<"a", "b", "c", "d", "e", "f", "1", "2", "3", "4">>)
          = <<"a", "b", "/", "c", "d", "/", "e", "f", "1", "2", "3", "4">>
    /\ \A p \in Procs : Sharded(p) => res[p].path = Segments(call[p].oid)
    /\ \A p \in Procs : \A q \in Procs \ {p} :
          (Sharded(p) /\ Sharded(q) /\ call[p].oid # call[q].oid)
             => res[p].path # res[q].path

\* Two keys that share their four first characters and one that is longer
\* than the other have been sharded, into different paths.
C13_Witness ==
    /\ Sharded("p1") /\ Sharded("p2")
    /\ Len(call["p1"].oid) = 5 /\ Len(call["p2"].oid) = MaxKeyLen
    /\ SubSeq(call["p1"].oid, 1, 5) = SubSeq(call["p2"].oid, 1, 5)
    /\ res["p1"].path # res["p2"].path

\* Caller p is in a Put that has created the temp file and deferred its
\* removal.
HasTemp(p) == call[p].op = "Put" /\ pc[p] \in {"copy", "verify", "rename", "remove"}

\* C14: a Put that created the temp file leaves Put only through the removal
\* of the temp path, after which the temp path is gone and Put returns the
\* error it had before the removal; and, no caller crashing, whenever no Put
\* for an identifier is executing no file is at its temp path.
C14_TempCleanup ==
    [][/\ \A p \in Procs :
             (HasTemp(p) /\ Acts(p)) =>
                /\ pc'[p] = "idle" => pc[p] = "remove"
                /\ pc'[p] = "idle" =>
                      /\ ~Exist(dent', TmpPath(call[p].oid))
                      /\ res'[p].err = loc[p].err
       /\ \A oid \in Oids :
             (\A p \in Procs : pc'[p] = "idle" \/ call'[p].oid # oid)
                => ~Exist(dent', TmpPath(oid))]_vars

\* Both callers have returned, one with the error of a rename that found no
\* temp file, the other with the error of the compressor's Close, and no temp
\* file is left.
C14_Witness ==
    /\ \A p \in Procs : Returned(p, "Put")
    /\ res["p1"].err = "ErrNotExist" /\ res["p2"].err = "ErrGzClose"
    /\ \A oid \in Oids : ~Exist(dent, TmpPath(oid))
    /\ succeeded # {}

\* The rename of caller p moves the file at the temp path to the final path
\* in this step.
Moves(p) ==
    /\ Exist(dent, TmpPath(call[p].oid))
    /\ ~Exist(dent', TmpPath(call[p].oid))
    /\ Exist(dent', FinalPath(call[p].oid))
    /\ dent'[FinalPath(call[p].oid)] = dent[TmpPath(call[p].oid)]

\* C15: a stream or compressor-close failure ends Put with that error and
\* no check; the file is closed when the checks are made; a size that
\* disagrees gives the size-mismatch error whatever the hash; a hash that
\* disagrees, the size agreeing, gives the hash-mismatch error; the rename is
\* attempted exactly when both agree; Put returns nil exactly when the rename
\* succeeded.
C15_StepOrder ==
    [][\A p \in Procs :
          (call[p].op = "Put" /\ Acts(p) /\ pc[p] # "idle" /\ pc[p] # "open") =>
             /\ pc[p] = "copy" =>
                   /\ pc'[p] \in {"copy", "verify", "remove"}
                   /\ pc'[p] = "remove" =>
                         /\ loc'[p].fd = 0
                         /\ loc'[p].err = IF call[p].srcErr THEN "ErrSource" ELSE "ErrGzClose"
             /\ pc[p] = "verify" =>
                   /\ loc'[p].fd = 0
                   /\ <<pc'[p], loc'[p].err>> =
                         IF loc[p].written # call[p].size
                         THEN <<"remove", "errSizeMismatch">>
                         ELSE IF Sha(loc[p].hash) # call[p].oid
                         THEN <<"remove", "errHashMismatch">>
                         ELSE <<"rename", "nil">>
             /\ pc'[p] = "rename" => pc[p] = "verify"
             /\ pc[p] = "rename" =>
                   /\ pc'[p] = "remove"
                   /\ (loc'[p].err = "nil") = Moves(p)
             /\ pc[p] = "remove" =>
                   /\ pc'[p] = "idle"
                   /\ res'[p].err = loc[p].err]_vars

\* A Put whose size and hash both disagree with its descriptor has returned
\* the size-mismatch error, and a Put has returned the error of a rename that
\* failed.
C15_Witness ==
    /\ Returned("p1", "Put") /\ res["p1"].err = "errSizeMismatch"
    /\ ~call["p1"].srcErr /\ Sha(call["p1"].src) # call["p1"].oid
    /\ Returned("p2", "Put") /\ res["p2"].err = "ErrNotExist"

\* Caller q is in a Put that created the file now at the temp path of its
\* identifier and has not reached its own removal.
OwnsTemp(q) ==
    /\ call[q].op = "Put" /\ pc[q] \in {"copy", "verify", "rename"}
    /\ Exist(dent, TmpPath(call[q].oid))
    /\ dent[TmpPath(call[q].oid)] = loc[q].made

\* C16 as stated: under any interleaving of Puts for one identifier, the
\* deferred removal of a Put never deletes the temp file that another Put,
\* still executing, created.
C16_RemovesOnlyOwnTemp ==
    [][\A p \in Procs : \A q \in Procs \ {p} :
          (pc[p] = "remove" /\ pc'[p] = "idle" /\ res'[p].err # "crashed"
             /\ call[q].oid = call[p].oid /\ OwnsTemp(q))
          => Exist(dent', TmpPath(call[q].oid))]_vars

\* C17 as stated: no file-system fault and no crash, whatever the
\* interleaving of Puts for one identifier, a Put with content that matches
\* its descriptor returns nil or, refused at the creation of the temp file,
\* the already-exists error; and the file its rename publishes is the one it
\* created.
C17_ValidWriterSucceeds ==
    [][\A p \in Procs :
          (call[p].op = "Put" /\ Valid(call[p]) /\ Acts(p)) =>
             /\ (pc[p] = "rename" /\ pc'[p] = "remove" /\ loc'[p].err = "nil") =>
                   dent[TmpPath(call[p].oid)] = loc[p].made
             /\ (pc[p] # "idle" /\ pc'[p] = "idle" /\ res'[p].err # "crashed") =>
                   \/ res'[p].err = "nil"
                   \/ res'[p].err = "ErrExist" /\ pc[p] = "open"]_vars

\* C18 as stated: Get returns a stream or an error, never both, and when it
\* returns an error the file it opened is closed.
C18_StreamOrFailure ==
    \A p \in Procs :
       (call[p].op = "Get" /\ res[p].err # "pending") =>
          /\ res[p].stream = (res[p].err = "nil")
          /\ leaked = {}
          /\ res[p].err # "nil" => loc[p].fd = 0

\* C19 as stated: when no other Put for the identifier is executing (each
\* has returned or has crashed), a Put that reaches the creation of its temp
\* file finds no temp file in its way.
C19_AlreadyExistsIsTransient ==
    \A p \in Procs :
       (call[p].op = "Put" /\ pc[p] = "open"
          /\ \A q \in Procs \ {p} : pc[q] = "idle" \/ call[q].oid # call[p].oid)
       => ~Exist(dent, TmpPath(call[p].oid))

=============================================================================
